---- MODULE Spec2Model ----
(***************************************************************************)
(* One run of a step of steps-gitlab-pipeline.  The repository holds six   *)
(* near-duplicate entry points (package main each); a run is one process  *)
(* executing one of them:                                                  *)
(*   "mr"    src/main.go:1-320     pipelines of one merge request (by IID), *)
(*                                 status as JSON, job played by GraphQL    *)
(*   "br"    src/main.go:322-633   merge requests of a branch, status as    *)
(*                                 form, job played by REST                 *)
(*   "bg"    src/main.go:635-957   merge requests of a branch, status as    *)
(*                                 form, job played by GraphQL              *)
(*   "sha"   src/unnamed/part_001  pipelines of a commit, job played by REST*)
(*   "repo"  src/unnamed/part_000  new pipeline for a repository URL        *)
(*   "proj"  src/unnamed/part_002  new pipeline for a project ID            *)
(* The process environment does not change during a run.  The three        *)
(* variables forwarded to the triggered job are read late in a run, or not *)
(* at all, so env holds them from the start; the value of every other      *)
(* variable is drawn where the code reads it (os.Getenv) and kept in env    *)
(* from then on.  Every network call is synchronous: the action that sends *)
(* a request also draws its outcome.                                        *)
(***************************************************************************)
EXTENDS Naturals, Sequences, FiniteSets, TLC

VARIABLES variant, pc, exitCode, env, response, status, jobID, pipelineID, requests

vars == <<variant, pc, exitCode, env, response, status, jobID, pipelineID, requests>>

(* ------------------------------ bounds -------------------------------- *)

\* pipelines in one query response
MaxPipelines == 2
\* jobs in one query response, over all its pipelines
MaxJobs == 2

(* ------------------------- values and strings -------------------------- *)

Variants == {"mr", "br", "bg", "sha", "repo", "proj"}

\* A Go string that the code splits on "/" is kept as the sequence of its
\* "/"-separated components (strings.Split never returns an empty slice):
\* "gid://gitlab/Ci::Build/77" is <<"gid:", "", "gitlab", "Ci::Build", "77">>
\* and the empty string is <<"">>.
EmptyID == <<"">>

NumStr == <<"1", "2", "3", "4", "5", "6", "7", "8", "9">>

PipelineGID(p) == <<"gid:", "", "gitlab", "Ci::Pipeline", "4" \o NumStr[p]>>

JobGID(p, j) == <<"gid:", "", "gitlab", "Ci::Build", "7" \o NumStr[p] \o NumStr[j]>>

\* the environment variables the entry points read
EnvNames == {"gitlab_project_path", "gitlab_merge_request_iid", "gitlab_branch_name",
             "gitlab_job_name", "gitlab_token", "bitrise_build_status",
             "bitrise_git_commit", "bitrise_build_url", "PR",
             "BITRISE_API_TOKEN", "BITRISE_APP_SLUG", "BITRISE_BUILD_SLUG",
             "BITRISE_GIT_BRANCH", "private_token", "repository_url", "project_id",
             "git_ref", "api_base_url"}

\* the value of a variable the run has not read yet
Unread == "<unread>"

\* the variables a triggered job needs to report back to the build
TriggerVariableNames == {"BITRISE_API_TOKEN", "BITRISE_APP_SLUG", "BITRISE_BUILD_SLUG"}

\* a local variable of main before the statement that declares it
Undeclared == <<"<undeclared>">>

\* a variable is unset (os.Getenv gives "") or holds a value
Values(name) == {"", "v:" \o name}

BuildStatusCodes == {"0", "1", "", "2", "01"}

JobNames == {"deploy", "Deploy"}

JobNameInputs == {"", "deploy"}

Pending == "pending"
Running == "running"
Success == "success"
Failed == "failed"
Canceled == "canceled"
Skipped == "skipped"

IsValid(s) == s \in {Pending, Running, Success, Failed, Canceled, Skipped}

(* --------------------------- query responses --------------------------- *)

SeqsUpTo(S, n) == UNION {[1..k -> S] : k \in 0..n}

JobShapes == [name : JobNames, canPlayJob : BOOLEAN]

RECURSIVE TotalJobs(_)
TotalJobs(shape) ==
    IF shape = <<>> THEN 0 ELSE Len(Head(shape)) + TotalJobs(Tail(shape))

PipelineShapes ==
    {s \in SeqsUpTo(SeqsUpTo(JobShapes, MaxJobs), MaxPipelines) : TotalJobs(s) <= MaxJobs}

\* the pipelines node list the host returns for a shape: IDs are unique
PipelineNodes(shape) ==
    [p \in 1..Len(shape) |->
        [id   |-> PipelineGID(p),
         iid  |-> <<NumStr[p]>>,
         jobs |-> [j \in 1..Len(shape[p]) |->
                     [id         |-> JobGID(p, j),
                      name       |-> shape[p][j].name,
                      status     |-> "MANUAL",
                      canPlayJob |-> shape[p][j].canPlayJob]]]]

\* the zero value of the response struct
GraphQLResponse == [mergeRequests |-> <<>>, pipelines |-> <<>>]

\* mergeRequests(sourceBranches: $branchName, first: 1)
FirstMergeRequests == 1

\* data.project.mergeRequest.pipelines.nodes / data.project.pipelines.nodes
PipelineResponses ==
    {[mergeRequests |-> <<>>, pipelines |-> PipelineNodes(s)] : s \in PipelineShapes}

\* data.project.mergeRequests.nodes[].pipelines.nodes
MergeRequestsResponses ==
    {[mergeRequests |-> [m \in 1..n |-> [pipelines |-> PipelineNodes(s)]],
      pipelines     |-> <<>>] : n \in 0..FirstMergeRequests, s \in PipelineShapes}

(* ------------------------------ requests ------------------------------- *)

StatusCodes == {200, 201, 204, 404, 500}

\* what the HTTP client returns: a transport error, or a response
NetOutcomes ==
    {[transport |-> TRUE, code |-> 0]} \cup
    {[transport |-> FALSE, code |-> c] : c \in StatusCodes}

NoVariables == {}

\* one request as the host sees it, with the outcome the client got
Request(kind, api, auth, token, o) ==
    [kind |-> kind, api |-> api, auth |-> auth, token |-> token, formToken |-> "",
     transport |-> o.transport, code |-> o.code, body |-> "",
     state |-> "", pipelineID |-> EmptyID, jobID |-> EmptyID,
     ref |-> "", variables |-> NoVariables]

\* log.Fatal / log.Fatalf: the process ends with exit status 1
logFatal == pc' = "exited" /\ exitCode' = 1

\* a main that blocks where it should return
mainReturns_blocks == pc' = "blocked" /\ exitCode' = 0

\* main returns: the process ends with exit status 0
mainReturns == pc' = "exited" /\ exitCode' = 0

Getenv(name) == env[name]

(* ------------------------------- start --------------------------------- *)

Init ==
    /\ variant \in Variants
    /\ pc = "start"
    /\ exitCode = 0
    /\ \E apiToken \in Values("BITRISE_API_TOKEN"),
          appSlug \in Values("BITRISE_APP_SLUG"),
          buildSlug \in Values("BITRISE_BUILD_SLUG") :
        env = [n \in EnvNames |->
                 CASE n = "BITRISE_API_TOKEN" -> apiToken
                   [] n = "BITRISE_APP_SLUG" -> appSlug
                   [] n = "BITRISE_BUILD_SLUG" -> buildSlug
                   [] OTHER -> Unread]
    /\ response = GraphQLResponse
    /\ status = Undeclared[1]
    /\ jobID = Undeclared
    /\ pipelineID = Undeclared
    /\ requests = <<>>

(* ============ "br": merge requests of a branch, REST job play ========== *)

fetchEnvVars_br ==
    /\ variant = "br" /\ pc = "start"
    /\ \E projectPath \in Values("gitlab_project_path"),
          branchName \in Values("gitlab_branch_name"),
          jobName \in JobNameInputs,
          gitlabToken \in Values("gitlab_token"),
          buildStatus \in BuildStatusCodes,
          buildSHA \in Values("bitrise_git_commit"),
          buildURL \in Values("bitrise_build_url") :
        /\ env' = [env EXCEPT !["gitlab_project_path"] = projectPath,
                              !["gitlab_branch_name"] = branchName,
                              !["gitlab_job_name"] = jobName,
                              !["gitlab_token"] = gitlabToken,
                              !["bitrise_build_status"] = buildStatus,
                              !["bitrise_git_commit"] = buildSHA,
                              !["bitrise_build_url"] = buildURL]
        /\ IF projectPath = "" \/ branchName = "" \/ jobName = "" \/ gitlabToken = ""
              \/ buildSHA = "" \/ buildURL = ""
           THEN logFatal
           ELSE pc' = "buildStatusToState" /\ UNCHANGED exitCode
    /\ UNCHANGED <<variant, response, status, jobID, pipelineID, requests>>

\* buildStatusToState_br taking every code but "0" for a failure
buildStatusToState_br_binary(buildStatus) ==
    CASE buildStatus = "0" -> Success
      [] OTHER -> Failed

buildStatusToState_br(buildStatus) ==
    CASE buildStatus = "0" -> Success
      [] buildStatus = "1" -> Failed
      [] OTHER -> Pending

main_br_status ==
    /\ variant = "br" /\ pc = "buildStatusToState"
    /\ status' = buildStatusToState_br(Getenv("bitrise_build_status"))
    /\ pc' = "fetchPipelines"
    /\ UNCHANGED <<variant, exitCode, env, response, jobID, pipelineID, requests>>

\* the GraphQL endpoint's answer is used only when it is 200 OK
queryAccepted_br(code) == code = 200

fetchPipelines_br ==
    /\ variant = "br" /\ pc = "fetchPipelines"
    /\ \E o \in NetOutcomes :
        IF o.transport \/ ~queryAccepted_br(o.code)
        THEN /\ requests' = Append(requests, Request("query", "graphql", "Bearer", Getenv("gitlab_token"), o))
             /\ logFatal
             /\ UNCHANGED response
        ELSE \E decodes \in BOOLEAN :
             IF ~decodes
             THEN /\ requests' = Append(requests,
                        [Request("query", "graphql", "Bearer", Getenv("gitlab_token"), o) EXCEPT !.body = "malformed"])
                  /\ logFatal
                  /\ UNCHANGED response
             ELSE \E r \in MergeRequestsResponses :
                  /\ requests' = Append(requests,
                        [Request("query", "graphql", "Bearer", Getenv("gitlab_token"), o) EXCEPT !.body = "ok"])
                  /\ response' = r
                  /\ pc' = "findJobAndPipeline"
                  /\ UNCHANGED exitCode
    /\ UNCHANGED <<variant, env, status, jobID, pipelineID>>

\* strings.Split(fullID, "/") and its last element
extractLastComponent_br(fullID) == <<fullID[Len(fullID)]>>

\* the three nested range loops, left by the first return
findJobAndPipeline_br(resp, jobName) ==
    LET RECURSIVE jobs(_, _), pipelines(_, _), mergeRequests(_)
        jobs(pipeline, j) ==
            IF j > Len(pipeline.jobs) THEN <<>>
            ELSE IF pipeline.jobs[j].name = jobName /\ pipeline.jobs[j].canPlayJob
                 THEN <<pipeline.jobs[j].id, extractLastComponent_br(pipeline.id)>>
                 ELSE jobs(pipeline, j + 1)
        pipelines(mergeRequest, p) ==
            IF p > Len(mergeRequest.pipelines) THEN <<>>
            ELSE LET found == jobs(mergeRequest.pipelines[p], 1) IN
                 IF found # <<>> THEN found ELSE pipelines(mergeRequest, p + 1)
        mergeRequests(m) ==
            IF m > Len(resp.mergeRequests) THEN <<EmptyID, EmptyID>>
            ELSE LET found == pipelines(resp.mergeRequests[m], 1) IN
                 IF found # <<>> THEN found ELSE mergeRequests(m + 1)
    IN  mergeRequests(1)

main_br_find ==
    /\ variant = "br" /\ pc = "findJobAndPipeline"
    /\ LET found == findJobAndPipeline_br(response, Getenv("gitlab_job_name")) IN
        /\ jobID' = found[1]
        /\ pipelineID' = found[2]
        /\ IF found[1] = EmptyID \/ found[2] = EmptyID
           THEN logFatal
           ELSE pc' = "publishBuildStatus" /\ UNCHANGED exitCode
    /\ UNCHANGED <<variant, env, response, status, requests>>

\* statusAccepted_br taking every answer below 500 for a success
statusAccepted_br_lax(code) == code < 500

\* the statuses endpoint's answer counts as success when 200 OK or 201 Created
statusAccepted_br(code) == code = 200 \/ code = 201

publishBuildStatus_br ==
    /\ variant = "br" /\ pc = "publishBuildStatus"
    /\ IF ~IsValid(status)
       THEN logFatal /\ UNCHANGED requests
       ELSE \E o \in NetOutcomes :
            /\ requests' = Append(requests,
                    [Request("status", "rest", "Bearer", Getenv("gitlab_token"), o)
                        EXCEPT !.state = status, !.pipelineID = pipelineID])
            /\ IF o.transport \/ ~statusAccepted_br(o.code)
               THEN logFatal
               ELSE pc' = "trigger" /\ UNCHANGED exitCode
    /\ UNCHANGED <<variant, env, response, status, jobID, pipelineID>>

\* the job play endpoint's answer counts as success when 200 OK or 201 Created
playAccepted_br(code) == code = 200 \/ code = 201

\* triggerJob, then main returns
triggerJob_br ==
    LET apiToken == Getenv("BITRISE_API_TOKEN")
        appSlug == Getenv("BITRISE_APP_SLUG")
        buildSlug == Getenv("BITRISE_BUILD_SLUG")
    IN  /\ IF apiToken = "" \/ appSlug = "" \/ buildSlug = ""
           THEN logFatal /\ UNCHANGED requests
           ELSE \E o \in NetOutcomes :
                /\ requests' = Append(requests,
                        [Request("jobPlay", "rest", "PRIVATE-TOKEN", Getenv("gitlab_token"), o)
                            EXCEPT !.jobID = extractLastComponent_br(jobID),
                                   !.variables = {<<"BITRISE_API_TOKEN", apiToken>>,
                                                  <<"BITRISE_APP_SLUG", appSlug>>,
                                                  <<"BITRISE_BUILD_SLUG", buildSlug>>}])
                /\ IF o.transport \/ ~playAccepted_br(o.code)
                   THEN logFatal
                   ELSE mainReturns

\* main with the test status == Success turned into a test for Failed
main_br_trigger_onFailure ==
    /\ variant = "br" /\ pc = "trigger"
    /\ IF status = Failed
       THEN triggerJob_br
       ELSE mainReturns /\ UNCHANGED requests
    /\ UNCHANGED <<variant, env, response, status, jobID, pipelineID>>

\* if status == Success { triggerJob(...) }, then main returns
main_br_trigger ==
    /\ variant = "br" /\ pc = "trigger"
    /\ IF status = Success
       THEN triggerJob_br
       ELSE mainReturns /\ UNCHANGED requests
    /\ UNCHANGED <<variant, env, response, status, jobID, pipelineID>>

(* ========== "bg": merge requests of a branch, GraphQL job play ========= *)

fetchEnvVars_bg ==
    /\ variant = "bg" /\ pc = "start"
    /\ \E projectPath \in Values("gitlab_project_path"),
          branchName \in Values("gitlab_branch_name"),
          jobName \in JobNameInputs,
          gitlabToken \in Values("gitlab_token"),
          buildStatus \in BuildStatusCodes,
          buildSHA \in Values("bitrise_git_commit"),
          buildURL \in Values("bitrise_build_url") :
        /\ env' = [env EXCEPT !["gitlab_project_path"] = projectPath,
                              !["gitlab_branch_name"] = branchName,
                              !["gitlab_job_name"] = jobName,
                              !["gitlab_token"] = gitlabToken,
                              !["bitrise_build_status"] = buildStatus,
                              !["bitrise_git_commit"] = buildSHA,
                              !["bitrise_build_url"] = buildURL]
        /\ IF projectPath = "" \/ branchName = "" \/ jobName = "" \/ gitlabToken = ""
              \/ buildSHA = "" \/ buildURL = ""
           THEN logFatal
           ELSE pc' = "buildStatusToState" /\ UNCHANGED exitCode
    /\ UNCHANGED <<variant, response, status, jobID, pipelineID, requests>>

buildStatusToState_bg(buildStatus) ==
    CASE buildStatus = "0" -> "success"
      [] buildStatus = "1" -> "failed"
      [] OTHER -> "pending"

main_bg_status ==
    /\ variant = "bg" /\ pc = "buildStatusToState"
    /\ status' = buildStatusToState_bg(Getenv("bitrise_build_status"))
    /\ pc' = "fetchPipelines"
    /\ UNCHANGED <<variant, exitCode, env, response, jobID, pipelineID, requests>>

queryAccepted_bg(code) == code = 200

fetchPipelines_bg ==
    /\ variant = "bg" /\ pc = "fetchPipelines"
    /\ \E o \in NetOutcomes :
        IF o.transport \/ ~queryAccepted_bg(o.code)
        THEN /\ requests' = Append(requests, Request("query", "graphql", "Bearer", Getenv("gitlab_token"), o))
             /\ logFatal
             /\ UNCHANGED response
        ELSE \E decodes \in BOOLEAN :
             IF ~decodes
             THEN /\ requests' = Append(requests,
                        [Request("query", "graphql", "Bearer", Getenv("gitlab_token"), o) EXCEPT !.body = "malformed"])
                  /\ logFatal
                  /\ UNCHANGED response
             ELSE \E r \in MergeRequestsResponses :
                  /\ requests' = Append(requests,
                        [Request("query", "graphql", "Bearer", Getenv("gitlab_token"), o) EXCEPT !.body = "ok"])
                  /\ response' = r
                  /\ pc' = "findJobAndPipeline"
                  /\ UNCHANGED exitCode
    /\ UNCHANGED <<variant, env, status, jobID, pipelineID>>

extractLastComponent_bg(fullID) == <<fullID[Len(fullID)]>>

findJobAndPipeline_bg(resp, jobName) ==
    LET RECURSIVE jobs(_, _), pipelines(_, _), mergeRequests(_)
        jobs(pipeline, j) ==
            IF j > Len(pipeline.jobs) THEN <<>>
            ELSE IF pipeline.jobs[j].name = jobName /\ pipeline.jobs[j].canPlayJob
                 THEN LET pid == extractLastComponent_bg(pipeline.id) IN
                      <<pipeline.jobs[j].id, pid>>
                 ELSE jobs(pipeline, j + 1)
        pipelines(mergeRequest, p) ==
            IF p > Len(mergeRequest.pipelines) THEN <<>>
            ELSE LET found == jobs(mergeRequest.pipelines[p], 1) IN
                 IF found # <<>> THEN found ELSE pipelines(mergeRequest, p + 1)
        mergeRequests(m) ==
            IF m > Len(resp.mergeRequests) THEN <<EmptyID, EmptyID>>
            ELSE LET found == pipelines(resp.mergeRequests[m], 1) IN
                 IF found # <<>> THEN found ELSE mergeRequests(m + 1)
    IN  mergeRequests(1)

main_bg_find ==
    /\ variant = "bg" /\ pc = "findJobAndPipeline"
    /\ LET found == findJobAndPipeline_bg(response, Getenv("gitlab_job_name")) IN
        /\ jobID' = found[1]
        /\ pipelineID' = found[2]
        /\ IF found[1] = EmptyID \/ found[2] = EmptyID
           THEN logFatal
           ELSE pc' = "publishBuildStatus" /\ UNCHANGED exitCode
    /\ UNCHANGED <<variant, env, response, status, requests>>

statusAccepted_bg(code) == code = 200 \/ code = 201

\* no IsValid check in this variant: the state is sent as given
publishBuildStatus_bg ==
    /\ variant = "bg" /\ pc = "publishBuildStatus"
    /\ \E o \in NetOutcomes :
        /\ requests' = Append(requests,
                [Request("status", "rest", "Bearer", Getenv("gitlab_token"), o)
                    EXCEPT !.state = status, !.pipelineID = pipelineID])
        /\ IF o.transport \/ ~statusAccepted_bg(o.code)
           THEN logFatal
           ELSE pc' = "trigger" /\ UNCHANGED exitCode
    /\ UNCHANGED <<variant, env, response, status, jobID, pipelineID>>

mutationAccepted_bg(code) == code = 200

\* what a 200 answer to the jobPlay mutation can hold: a body that does not
\* decode, a non-empty errors list, or no errors
MutationBodies == {"malformed", "errors", "ok"}

\* triggerJob_bg sending the mutation again after a transport error
triggerJob_bg_retry ==
    \E o \in NetOutcomes :
        IF o.transport
        THEN /\ requests' = Append(requests,
                    [Request("jobPlay", "graphql", "Bearer", Getenv("gitlab_token"), o) EXCEPT !.jobID = jobID])
             /\ UNCHANGED <<pc, exitCode>>
        ELSE IF o.code # 200
        THEN /\ requests' = Append(requests,
                    [Request("jobPlay", "graphql", "Bearer", Getenv("gitlab_token"), o) EXCEPT !.jobID = jobID])
             /\ logFatal
        ELSE \E body \in {"malformed", "errors", "ok"} :
             /\ requests' = Append(requests,
                    [Request("jobPlay", "graphql", "Bearer", Getenv("gitlab_token"), o)
                        EXCEPT !.jobID = jobID, !.body = body])
             /\ IF body = "malformed" \/ body = "errors"
                THEN logFatal
                ELSE mainReturns

\* triggerJob (the jobPlay mutation), then main returns
triggerJob_bg ==
    \E o \in NetOutcomes :
        IF o.transport \/ ~mutationAccepted_bg(o.code)
        THEN /\ requests' = Append(requests,
                    [Request("jobPlay", "graphql", "Bearer", Getenv("gitlab_token"), o) EXCEPT !.jobID = jobID])
             /\ logFatal
        ELSE \E body \in MutationBodies :
             /\ requests' = Append(requests,
                    [Request("jobPlay", "graphql", "Bearer", Getenv("gitlab_token"), o)
                        EXCEPT !.jobID = jobID, !.body = body])
             /\ IF body = "malformed" \/ body = "errors"
                THEN logFatal
                ELSE mainReturns

\* main triggering on every status that is not a failure, pending included
main_bg_trigger_unlessFailed ==
    /\ variant = "bg" /\ pc = "trigger"
    /\ IF status # "failed"
       THEN triggerJob_bg
       ELSE mainReturns /\ UNCHANGED requests
    /\ UNCHANGED <<variant, env, response, status, jobID, pipelineID>>

main_bg_trigger ==
    /\ variant = "bg" /\ pc = "trigger"
    /\ IF status = "success"
       THEN triggerJob_bg
       ELSE mainReturns /\ UNCHANGED requests
    /\ UNCHANGED <<variant, env, response, status, jobID, pipelineID>>

(* ========== "mr": pipelines of one merge request, GraphQL play ========= *)

fetchEnvVars_mr ==
    /\ variant = "mr" /\ pc = "start"
    /\ \E projectPath \in Values("gitlab_project_path"),
          mergeRequestIID \in Values("gitlab_merge_request_iid"),
          jobName \in JobNameInputs,
          gitlabToken \in Values("gitlab_token") :
        /\ env' = [env EXCEPT !["gitlab_project_path"] = projectPath,
                              !["gitlab_merge_request_iid"] = mergeRequestIID,
                              !["gitlab_job_name"] = jobName,
                              !["gitlab_token"] = gitlabToken]
        /\ IF projectPath = "" \/ mergeRequestIID = "" \/ jobName = "" \/ gitlabToken = ""
           THEN logFatal
           ELSE pc' = "buildStatus" /\ UNCHANGED exitCode
    /\ UNCHANGED <<variant, response, status, jobID, pipelineID, requests>>

\* main reads bitrise_build_status and refuses an empty one
main_mr_buildStatus ==
    /\ variant = "mr" /\ pc = "buildStatus"
    /\ \E bitriseBuildStatus \in BuildStatusCodes :
        /\ env' = [env EXCEPT !["bitrise_build_status"] = bitriseBuildStatus]
        /\ IF bitriseBuildStatus = ""
           THEN logFatal
           ELSE pc' = "fetchPipelines" /\ UNCHANGED exitCode
    /\ UNCHANGED <<variant, response, status, jobID, pipelineID, requests>>

queryAccepted_mr(code) == code = 200

fetchPipelines_mr ==
    /\ variant = "mr" /\ pc = "fetchPipelines"
    /\ \E o \in NetOutcomes :
        IF o.transport \/ ~queryAccepted_mr(o.code)
        THEN /\ requests' = Append(requests, Request("query", "graphql", "Bearer", Getenv("gitlab_token"), o))
             /\ logFatal
             /\ UNCHANGED response
        ELSE \E decodes \in BOOLEAN :
             IF ~decodes
             THEN /\ requests' = Append(requests,
                        [Request("query", "graphql", "Bearer", Getenv("gitlab_token"), o) EXCEPT !.body = "malformed"])
                  /\ logFatal
                  /\ UNCHANGED response
             ELSE \E r \in PipelineResponses :
                  /\ requests' = Append(requests,
                        [Request("query", "graphql", "Bearer", Getenv("gitlab_token"), o) EXCEPT !.body = "ok"])
                  /\ response' = r
                  /\ pc' = "findPipelineID"
                  /\ UNCHANGED exitCode
    /\ UNCHANGED <<variant, env, status, jobID, pipelineID>>

\* the range loop returns in its first iteration
findPipelineID_mr(resp) ==
    IF Len(resp.pipelines) >= 1 THEN resp.pipelines[1].iid ELSE EmptyID

\* main reads bitrise_git_commit and takes the pipeline to report on
main_mr_pipeline ==
    /\ variant = "mr" /\ pc = "findPipelineID"
    /\ \E bitriseBuildSHA \in Values("bitrise_git_commit") :
        /\ env' = [env EXCEPT !["bitrise_git_commit"] = bitriseBuildSHA]
        /\ pipelineID' = findPipelineID_mr(response)
        /\ IF bitriseBuildSHA = "" \/ pipelineID' = EmptyID
           THEN logFatal
           ELSE pc' = "publishBitriseStatus" /\ UNCHANGED exitCode
    /\ UNCHANGED <<variant, response, status, jobID, requests>>

bitriseBuildStatusToState(bitriseBuildStatus) ==
    CASE bitriseBuildStatus = "0" -> "success"
      [] bitriseBuildStatus = "1" -> "failed"
      [] OTHER -> "pending"

statusAccepted_mr(code) == code = 200 \/ code = 201

\* publishBitriseStatus(projectPath, sha, pipelineID, state, buildURL, token):
\* the state is sent as it is given, then the caller goes on
publishBitriseStatus(state) ==
    /\ status' = state
    /\ \E buildURL \in Values("bitrise_build_url"), o \in NetOutcomes :
        /\ env' = [env EXCEPT !["bitrise_build_url"] = buildURL]
        /\ requests' = Append(requests,
                [Request("status", "rest", "Bearer", Getenv("gitlab_token"), o)
                    EXCEPT !.state = state, !.pipelineID = pipelineID])
        /\ IF o.transport \/ ~statusAccepted_mr(o.code)
           THEN logFatal
           ELSE pc' = "trigger" /\ UNCHANGED exitCode
    /\ UNCHANGED <<variant, response, jobID, pipelineID>>

\* publishBitriseStatus(..., bitriseBuildStatusToState(bitriseBuildStatus), ...)
main_mr_publish ==
    /\ variant = "mr" /\ pc = "publishBitriseStatus"
    /\ publishBitriseStatus(bitriseBuildStatusToState(Getenv("bitrise_build_status")))

\* the two nested range loops, left by the first return
findJobID(resp, jobName) ==
    LET RECURSIVE jobs(_, _), pipelines(_)
        jobs(pipeline, j) ==
            IF j > Len(pipeline.jobs) THEN <<>>
            ELSE IF pipeline.jobs[j].name = jobName /\ pipeline.jobs[j].canPlayJob
                 THEN pipeline.jobs[j].id
                 ELSE jobs(pipeline, j + 1)
        pipelines(p) ==
            IF p > Len(resp.pipelines) THEN EmptyID
            ELSE LET found == jobs(resp.pipelines[p], 1) IN
                 IF found # <<>> THEN found ELSE pipelines(p + 1)
    IN  pipelines(1)

\* a check of the mutation's answer that lets client errors through
mutationAccepted_mr_lax(code) == code < 500

\* resp.StatusCode != http.StatusOK is fatal
mutationAccepted_mr(code) == code = 200

triggerJob_mr ==
    \E o \in NetOutcomes :
        IF o.transport \/ ~mutationAccepted_mr(o.code)
        THEN /\ requests' = Append(requests,
                    [Request("jobPlay", "graphql", "Bearer", Getenv("gitlab_token"), o) EXCEPT !.jobID = jobID'])
             /\ logFatal
        ELSE \E body \in MutationBodies :
             /\ requests' = Append(requests,
                    [Request("jobPlay", "graphql", "Bearer", Getenv("gitlab_token"), o)
                        EXCEPT !.jobID = jobID', !.body = body])
             /\ IF body = "malformed" \/ body = "errors"
                THEN logFatal
                ELSE mainReturns

\* the branch on bitrise_build_status, findJobID and triggerJob, then main returns
main_mr_trigger ==
    /\ variant = "mr" /\ pc = "trigger"
    /\ IF Getenv("bitrise_build_status") = "0"
       THEN /\ jobID' = findJobID(response, Getenv("gitlab_job_name"))
            /\ IF jobID' = EmptyID
               THEN logFatal /\ UNCHANGED requests
               ELSE triggerJob_mr
       ELSE mainReturns /\ UNCHANGED <<jobID, requests>>
    /\ UNCHANGED <<variant, env, response, status, pipelineID>>

(* ============ "sha": pipelines of a commit, REST job play ============== *)

\* a nil *string
Nil == "<nil>"

\* a run-time panic (nil pointer dereference): the process ends with exit status 2
goPanic == pc' = "exited" /\ exitCode' = 2

PRValues == {"", "false", "true"}

fetchEnvVars_sha ==
    /\ variant = "sha" /\ pc = "start"
    /\ \E projectPath \in Values("gitlab_project_path"),
          branchName \in Values("gitlab_branch_name"),
          jobName \in JobNameInputs,
          gitlabToken \in Values("gitlab_token"),
          buildStatus \in BuildStatusCodes,
          buildSHA \in Values("bitrise_git_commit"),
          buildURL \in Values("bitrise_build_url"),
          pr \in PRValues :
        /\ env' = [env EXCEPT !["gitlab_project_path"] = projectPath,
                              !["gitlab_branch_name"] = branchName,
                              !["gitlab_job_name"] = jobName,
                              !["gitlab_token"] = gitlabToken,
                              !["bitrise_build_status"] = buildStatus,
                              !["bitrise_git_commit"] = buildSHA,
                              !["bitrise_build_url"] = buildURL,
                              !["PR"] = pr]
        /\ IF projectPath = "" \/ jobName = "" \/ gitlabToken = "" \/ buildURL = ""
           THEN logFatal
           ELSE pc' = "buildStatusToState" /\ UNCHANGED exitCode
    /\ UNCHANGED <<variant, response, status, jobID, pipelineID, requests>>

\* the buildSHA pointer fetchEnvVars returns
buildSHAPtr_sha == IF Getenv("bitrise_git_commit") # "" THEN Getenv("bitrise_git_commit") ELSE Nil

\* the branchName pointer fetchEnvVars returns
branchNamePtr_sha == IF Getenv("PR") = "false" THEN Nil ELSE Getenv("gitlab_branch_name")

buildStatusToState_sha(buildStatus) ==
    CASE buildStatus = "0" -> Success
      [] buildStatus = "1" -> Failed
      [] OTHER -> Pending

main_sha_status ==
    /\ variant = "sha" /\ pc = "buildStatusToState"
    /\ status' = buildStatusToState_sha(Getenv("bitrise_build_status"))
    /\ pc' = "fetchPipelines"
    /\ UNCHANGED <<variant, exitCode, env, response, jobID, pipelineID, requests>>

queryAccepted_sha(code) == code = 200

\* fetchPipelines(projectPath, *buildSHA, branchName, gitlabToken)
fetchPipelines_sha ==
    /\ variant = "sha" /\ pc = "fetchPipelines"
    /\ IF buildSHAPtr_sha = Nil
       THEN goPanic /\ UNCHANGED <<requests, response>>
       ELSE \E o \in NetOutcomes :
        IF o.transport \/ ~queryAccepted_sha(o.code)
        THEN /\ requests' = Append(requests, Request("query", "graphql", "Bearer", Getenv("gitlab_token"), o))
             /\ logFatal
             /\ UNCHANGED response
        ELSE \E decodes \in BOOLEAN :
             IF ~decodes
             THEN /\ requests' = Append(requests,
                        [Request("query", "graphql", "Bearer", Getenv("gitlab_token"), o) EXCEPT !.body = "malformed"])
                  /\ logFatal
                  /\ UNCHANGED response
             ELSE \E r \in PipelineResponses :
                  /\ requests' = Append(requests,
                        [Request("query", "graphql", "Bearer", Getenv("gitlab_token"), o) EXCEPT !.body = "ok"])
                  /\ response' = r
                  /\ pc' = "findJobAndPipeline"
                  /\ UNCHANGED exitCode
    /\ UNCHANGED <<variant, env, status, jobID, pipelineID>>

extractLastComponent_sha(fullID) == <<fullID[Len(fullID)]>>

\* the two nested range loops, left by the first return; canPlayJob is not read
findJobAndPipeline_sha(resp, jobName) ==
    LET RECURSIVE jobs(_, _), pipelines(_)
        jobs(pipeline, j) ==
            IF j > Len(pipeline.jobs) THEN <<>>
            ELSE IF pipeline.jobs[j].name = jobName
                 THEN <<pipeline.jobs[j].id, extractLastComponent_sha(pipeline.id)>>
                 ELSE jobs(pipeline, j + 1)
        pipelines(p) ==
            IF p > Len(resp.pipelines) THEN <<EmptyID, EmptyID>>
            ELSE LET found == jobs(resp.pipelines[p], 1) IN
                 IF found # <<>> THEN found ELSE pipelines(p + 1)
    IN  pipelines(1)

\* main reporting a job that was not found to the host before it gives up
main_sha_find_reports ==
    /\ variant = "sha" /\ pc = "findJobAndPipeline"
    /\ LET found == findJobAndPipeline_sha(response, Getenv("gitlab_job_name")) IN
        /\ jobID' = found[1]
        /\ pipelineID' = found[2]
        /\ IF found[1] = EmptyID \/ found[2] = EmptyID
           THEN /\ \E o \in NetOutcomes :
                    requests' = Append(requests,
                        [Request("status", "rest", "Bearer", Getenv("gitlab_token"), o)
                            EXCEPT !.state = Failed])
                /\ logFatal
           ELSE pc' = "trigger" /\ UNCHANGED <<exitCode, requests>>
    /\ UNCHANGED <<variant, env, response, status>>

\* findJobAndPipeline and the check of its result; the call of
\* publishBuildStatus that follows in the source is commented out
main_sha_find ==
    /\ variant = "sha" /\ pc = "findJobAndPipeline"
    /\ LET found == findJobAndPipeline_sha(response, Getenv("gitlab_job_name")) IN
        /\ jobID' = found[1]
        /\ pipelineID' = found[2]
        /\ IF found[1] = EmptyID \/ found[2] = EmptyID
           THEN logFatal
           ELSE pc' = "trigger" /\ UNCHANGED exitCode
    /\ UNCHANGED <<variant, env, response, status, requests>>

statusAccepted_sha(code) == code = 200 \/ code = 201

\* publishBuildStatus as the file defines it; main does not call it
publishBuildStatus_sha ==
    /\ variant = "sha" /\ pc = "publishBuildStatus"
    /\ IF ~IsValid(status)
       THEN logFatal /\ UNCHANGED requests
       ELSE \E o \in NetOutcomes :
            /\ requests' = Append(requests,
                    [Request("status", "rest", "Bearer", Getenv("gitlab_token"), o)
                        EXCEPT !.state = status, !.pipelineID = pipelineID])
            /\ IF o.transport \/ ~statusAccepted_sha(o.code)
               THEN logFatal
               ELSE pc' = "trigger" /\ UNCHANGED exitCode
    /\ UNCHANGED <<variant, env, response, status, jobID, pipelineID>>

playAccepted_sha(code) == code = 200 \/ code = 201

\* triggerJob, then main returns
triggerJob_sha ==
    LET apiToken == Getenv("BITRISE_API_TOKEN")
        appSlug == Getenv("BITRISE_APP_SLUG")
        buildSlug == Getenv("BITRISE_BUILD_SLUG")
    IN  /\ IF apiToken = "" \/ appSlug = "" \/ buildSlug = ""
           THEN logFatal /\ UNCHANGED requests
           ELSE \E o \in NetOutcomes :
                /\ requests' = Append(requests,
                        [Request("jobPlay", "rest", "PRIVATE-TOKEN", Getenv("gitlab_token"), o)
                            EXCEPT !.jobID = extractLastComponent_sha(jobID),
                                   !.variables = {<<"BITRISE_API_TOKEN", apiToken>>,
                                                  <<"BITRISE_APP_SLUG", appSlug>>,
                                                  <<"BITRISE_BUILD_SLUG", buildSlug>>}])
                /\ IF o.transport \/ ~playAccepted_sha(o.code)
                   THEN logFatal
                   ELSE mainReturns

main_sha_trigger ==
    /\ variant = "sha" /\ pc = "trigger"
    /\ IF status = Success
       THEN triggerJob_sha
       ELSE mainReturns /\ UNCHANGED requests
    /\ UNCHANGED <<variant, env, response, status, jobID, pipelineID>>

(* ============== "repo": new pipeline for a repository URL ============== *)

\* os.Exit(1)
osExit1 == pc' = "exited" /\ exitCode' = 1

\* stepconf.Parse(&cfg): every field of config is tagged required
main_repo_parse ==
    /\ variant = "repo" /\ pc = "start"
    /\ \E privateToken \in Values("private_token"),
          repositoryURL \in Values("repository_url"),
          gitRef \in Values("git_ref"),
          apiURL \in Values("api_base_url") :
        /\ env' = [env EXCEPT !["private_token"] = privateToken,
                              !["repository_url"] = repositoryURL,
                              !["git_ref"] = gitRef,
                              !["api_base_url"] = apiURL]
        /\ IF privateToken = "" \/ repositoryURL = "" \/ gitRef = "" \/ apiURL = ""
           THEN osExit1
           ELSE pc' = "triggerPipeline" /\ UNCHANGED exitCode
    /\ UNCHANGED <<variant, response, status, jobID, pipelineID, requests>>

\* a trigger variable goes into the form only when it is set
formVariables_repo(apiToken, appSlug, buildSlug) ==
    {kv \in {<<"BITRISE_API_TOKEN", apiToken>>,
             <<"BITRISE_APP_SLUG", appSlug>>,
             <<"BITRISE_BUILD_SLUG", buildSlug>>} : kv[2] # ""}

pipelineAccepted_repo(code) == ~(code < 200 \/ code >= 300)

\* triggerPipeline(cfg) and main's handling of its result
triggerPipeline_repo ==
    /\ variant = "repo" /\ pc = "triggerPipeline"
    /\ \E requestBuilt \in BOOLEAN :
        IF ~requestBuilt
        THEN osExit1 /\ UNCHANGED requests
        ELSE \E o \in NetOutcomes :
             /\ requests' = Append(requests,
                    [Request("triggerPipeline", "rest", "PRIVATE-TOKEN",
                             Getenv("private_token"), o)
                        EXCEPT !.formToken = Getenv("private_token"),
                               !.ref = Getenv("git_ref"),
                               !.variables = formVariables_repo(Getenv("BITRISE_API_TOKEN"),
                                                                Getenv("BITRISE_APP_SLUG"),
                                                                Getenv("BITRISE_BUILD_SLUG"))])
             /\ IF o.transport \/ ~pipelineAccepted_repo(o.code)
                THEN osExit1
                ELSE mainReturns
    /\ UNCHANGED <<variant, env, response, status, jobID, pipelineID>>

(* ================ "proj": new pipeline for a project ID ================ *)

\* mainE with the required tag missing on private_token
mainE_parse_tokenOptional ==
    /\ variant = "proj" /\ pc = "start"
    /\ \E privateToken \in Values("private_token"),
          projectID \in Values("project_id"),
          gitRef \in Values("git_ref"),
          apiBaseURL \in Values("api_base_url") :
        /\ env' = [env EXCEPT !["private_token"] = privateToken,
                              !["project_id"] = projectID,
                              !["git_ref"] = gitRef,
                              !["api_base_url"] = apiBaseURL]
        /\ IF projectID = "" \/ gitRef = "" \/ apiBaseURL = ""
           THEN osExit1
           ELSE pc' = "triggerPipeline" /\ UNCHANGED exitCode
    /\ UNCHANGED <<variant, response, status, jobID, pipelineID, requests>>

\* mainE: stepconf.Parse(&cfg), every field of config is tagged required
mainE_parse ==
    /\ variant = "proj" /\ pc = "start"
    /\ \E privateToken \in Values("private_token"),
          projectID \in Values("project_id"),
          gitRef \in Values("git_ref"),
          apiBaseURL \in Values("api_base_url") :
        /\ env' = [env EXCEPT !["private_token"] = privateToken,
                              !["project_id"] = projectID,
                              !["git_ref"] = gitRef,
                              !["api_base_url"] = apiBaseURL]
        /\ IF privateToken = "" \/ projectID = "" \/ gitRef = "" \/ apiBaseURL = ""
           THEN osExit1
           ELSE pc' = "triggerPipeline" /\ UNCHANGED exitCode
    /\ UNCHANGED <<variant, response, status, jobID, pipelineID, requests>>

\* a ref that falls back to a fixed branch name when cfg.GitRef is empty
ref_proj_default(gitRef, gitBranch) == IF gitRef = "" THEN "main" ELSE gitRef

\* the ref to trigger: cfg.GitRef, or BITRISE_GIT_BRANCH when that is empty
ref_proj(gitRef, gitBranch) == IF gitRef = "" THEN gitBranch ELSE gitRef

pipelineAccepted_proj(code) == ~(code < 200 \/ code >= 300)

\* triggerPipeline(cfg) and main's handling of the error mainE returns
triggerPipeline_proj ==
    /\ variant = "proj" /\ pc = "triggerPipeline"
    /\ \E gitBranch \in Values("BITRISE_GIT_BRANCH"), requestBuilt \in BOOLEAN :
        LET ref == ref_proj(Getenv("git_ref"), gitBranch)
            apiToken == Getenv("BITRISE_API_TOKEN")
            appSlug == Getenv("BITRISE_APP_SLUG")
            buildSlug == Getenv("BITRISE_BUILD_SLUG")
        IN
        \* BITRISE_GIT_BRANCH is read only when cfg.GitRef is empty
        /\ (Getenv("git_ref") # "" => gitBranch = "")
        /\ env' = [env EXCEPT
                !["BITRISE_GIT_BRANCH"] = IF Getenv("git_ref") = "" THEN gitBranch ELSE @]
        /\ IF ref = ""
           THEN osExit1 /\ UNCHANGED requests
           ELSE IF ~requestBuilt
                THEN osExit1 /\ UNCHANGED requests
                ELSE \E o \in NetOutcomes :
                     /\ requests' = Append(requests,
                            [Request("triggerPipeline", "rest", "none", "", o)
                                EXCEPT !.formToken = Getenv("private_token"),
                                       !.ref = ref,
                                       !.variables = {<<"BITRISE_API_TOKEN", apiToken>>,
                                                      <<"BITRISE_APP_SLUG", appSlug>>,
                                                      <<"BITRISE_BUILD_SLUG", buildSlug>>}])
                     /\ IF o.transport \/ ~pipelineAccepted_proj(o.code)
                        THEN osExit1
                        ELSE mainReturns
    /\ UNCHANGED <<variant, response, status, jobID, pipelineID>>

Next ==
    \/ fetchEnvVars_sha \/ main_sha_status \/ fetchPipelines_sha \/ main_sha_find
    \/ main_sha_trigger
    \/ main_repo_parse \/ triggerPipeline_repo
    \/ mainE_parse \/ triggerPipeline_proj
    \/ fetchEnvVars_bg \/ main_bg_status \/ fetchPipelines_bg \/ main_bg_find
    \/ publishBuildStatus_bg \/ main_bg_trigger
    \/ fetchEnvVars_mr \/ main_mr_buildStatus \/ fetchPipelines_mr \/ main_mr_pipeline
    \/ main_mr_publish \/ main_mr_trigger
    \/ fetchEnvVars_br \/ main_br_status \/ fetchPipelines_br \/ main_br_find
    \/ publishBuildStatus_br \/ main_br_trigger

Spec == Init /\ [][Next]_vars

\* The start of a run for the question of termination. triggerJob tests the
\* three trigger variables in one disjunction and nothing else reads them one
\* by one on the way to the exit, so a run starts with all three set or with
\* BITRISE_API_TOKEN missing.
InitFair ==
    /\ variant \in Variants
    /\ pc = "start"
    /\ exitCode = 0
    /\ \E apiToken \in Values("BITRISE_API_TOKEN") :
        env = [n \in EnvNames |->
                 CASE n = "BITRISE_API_TOKEN" -> apiToken
                   [] n = "BITRISE_APP_SLUG" -> "v:BITRISE_APP_SLUG"
                   [] n = "BITRISE_BUILD_SLUG" -> "v:BITRISE_BUILD_SLUG"
                   [] OTHER -> Unread]
    /\ response = GraphQLResponse
    /\ status = Undeclared[1]
    /\ jobID = Undeclared
    /\ pipelineID = Undeclared
    /\ requests = <<>>

\* One thread of control runs main from top to bottom: a step that can be
\* taken is taken, a network call included once it is assumed to return.
SpecFair == InitFair /\ [][Next]_vars /\ WF_vars(Next)


(* ============ the status publishers, called with any status ============ *)

\* a GitLabStatus is a string: the six constants and strings that are not
StatusArguments == {Pending, Running, Success, Failed, Canceled, Skipped,
                    "", "created", "SUCCESS"}

PublisherVariants == {"mr", "br", "bg", "sha"}

PipelineIDArguments == {<<"41">>, <<"42">>}

\* a call of the variant's publisher with a status and a pipeline ID
InitPublish ==
    /\ variant \in PublisherVariants
    /\ pc = IF variant = "mr" THEN "publishBitriseStatus" ELSE "publishBuildStatus"
    /\ exitCode = 0
    /\ env = [n \in EnvNames |-> IF n = "gitlab_token" THEN "v:gitlab_token" ELSE Unread]
    /\ response = GraphQLResponse
    /\ status \in StatusArguments
    /\ jobID = Undeclared
    /\ pipelineID \in PipelineIDArguments
    /\ requests = <<>>

publishBitriseStatus_mr ==
    /\ variant = "mr" /\ pc = "publishBitriseStatus"
    /\ publishBitriseStatus(status)

NextPublish ==
    \/ publishBuildStatus_br \/ publishBuildStatus_bg
    \/ publishBitriseStatus_mr \/ publishBuildStatus_sha

SpecPublish == InitPublish /\ [][NextPublish]_vars

(* ====== triggerPipeline of the project-ID entry point, with any cfg ===== *)

\* a call of triggerPipeline(cfg): GitRef and ProjectID may be empty, since
\* the function itself does not rely on the required tags of config
InitTriggerPipeline ==
    /\ variant = "proj"
    /\ pc = "triggerPipeline"
    /\ exitCode = 0
    /\ \E apiToken \in Values("BITRISE_API_TOKEN"),
          appSlug \in Values("BITRISE_APP_SLUG"),
          buildSlug \in Values("BITRISE_BUILD_SLUG"),
          gitRef \in Values("git_ref"),
          projectID \in Values("project_id") :
        env = [n \in EnvNames |->
                 CASE n = "BITRISE_API_TOKEN" -> apiToken
                   [] n = "BITRISE_APP_SLUG" -> appSlug
                   [] n = "BITRISE_BUILD_SLUG" -> buildSlug
                   [] n = "git_ref" -> gitRef
                   [] n = "project_id" -> projectID
                   [] n = "private_token" -> "v:private_token"
                   [] n = "api_base_url" -> "v:api_base_url"
                   [] OTHER -> Unread]
    /\ response = GraphQLResponse
    /\ status = Undeclared[1]
    /\ jobID = Undeclared
    /\ pipelineID = Undeclared
    /\ requests = <<>>

NextTriggerPipeline == triggerPipeline_proj

SpecTriggerPipeline == InitTriggerPipeline /\ [][NextTriggerPipeline]_vars



(* ============================== claims ================================= *)

\* the entry points that resolve a job before they act
ResolvingVariants == {"mr", "br", "bg", "sha"}

\* the positions in the run's request log of the requests of some kinds
RequestsOf(kinds) == {i \in 1..Len(requests) : requests[i].kind \in kinds}

StatusRequests == RequestsOf({"status"})

TriggerRequests == RequestsOf({"jobPlay", "triggerPipeline"})

\* the host recorded the commit status: 200 OK or 201 Created came back
PublishSucceededAt(i) ==
    requests[i].kind = "status" /\ ~requests[i].transport /\ requests[i].code \in {200, 201}

PublishFailedAt(i) ==
    requests[i].kind = "status" /\ (requests[i].transport \/ requests[i].code \notin {200, 201})

\* the host started the job: REST 200/201, or a GraphQL 200 without errors
TriggerSucceededAt(i) ==
    /\ ~requests[i].transport
    /\ \/ requests[i].kind = "jobPlay" /\ requests[i].api = "rest"
          /\ requests[i].code \in {200, 201}
       \/ requests[i].kind = "jobPlay" /\ requests[i].api = "graphql"
          /\ requests[i].code = 200 /\ requests[i].body = "ok"
       \/ requests[i].kind = "triggerPipeline"
          /\ requests[i].code >= 200 /\ requests[i].code < 300

\* C1: once the status publish of a run has failed (transport error, or an
\* answer other than 200/201), the run has sent no trigger request and has
\* ended with a non-zero exit status.
C1_PublishFailureStopsRun ==
    (\E i \in StatusRequests : PublishFailedAt(i))
        => TriggerRequests = {} /\ pc = "exited" /\ exitCode # 0

\* a successful build whose status publish was answered 404: the run is over
C1_Witness ==
    /\ variant = "br" /\ status = Success
    /\ \E i \in StatusRequests : PublishFailedAt(i) /\ requests[i].code = 404
    /\ pc = "exited"

\* C2: in a resolving entry point every trigger request comes after a status
\* publish of the same run that succeeded.
C2_TriggerPrecededByPublish ==
    variant \in ResolvingVariants
        => \A i \in TriggerRequests : \E j \in 1..(i - 1) : PublishSucceededAt(j)

\* C3: a run of a resolving entry point that ends with exit status zero has
\* published the status successfully, and every trigger it sent succeeded.
C3_ExitZeroOnlyAfterPublish ==
    (variant \in ResolvingVariants /\ pc = "exited" /\ exitCode = 0)
        => /\ \E j \in StatusRequests : PublishSucceededAt(j)
           /\ \A i \in TriggerRequests : TriggerSucceededAt(i)

\* the status table of the specification
TranslateTable(code) ==
    IF code = "0" THEN "success" ELSE IF code = "1" THEN "failed" ELSE "pending"

\* C4: in every variant the translator gives success for "0", failed for "1"
\* and pending for every other code, the empty one included, and the step
\* that translates never ends the run: past it the status is set, and every
\* status sent to the host is the translation of the build status.
C4_TranslatorTotal ==
    /\ (variant \in {"br", "bg", "sha"}
        /\ pc \in {"fetchPipelines", "findJobAndPipeline", "publishBuildStatus", "trigger"})
            => status # Undeclared[1]
    /\ status # Undeclared[1] => status = TranslateTable(Getenv("bitrise_build_status"))
    /\ \A i \in StatusRequests :
            requests[i].state = TranslateTable(Getenv("bitrise_build_status"))

\* the empty build status has been translated to pending
C4_Witness ==
    variant = "br" /\ Getenv("bitrise_build_status") = "" /\ status = "pending"

\* all pipelines of a response, in the order the host returned them
RECURSIVE ConcatPipelines(_)
ConcatPipelines(mrs) ==
    IF Len(mrs) = 0 THEN <<>> ELSE Head(mrs).pipelines \o ConcatPipelines(Tail(mrs))

GraphPipelines(resp) == resp.pipelines \o ConcatPipelines(resp.mergeRequests)

\* <<pipeline, job>> positions of the jobs named n
NameHits(resp, n) ==
    LET pls == GraphPipelines(resp) IN
    {h \in (1..Len(pls)) \X (1..MaxJobs) :
        h[2] <= Len(pls[h[1]].jobs) /\ pls[h[1]].jobs[h[2]].name = n}

\* the ID of the first job named n in the host's order, or the empty string
FirstNamedJobID(resp, n) ==
    LET hits == NameHits(resp, n) IN
    IF hits = {} THEN EmptyID
    ELSE LET h == CHOOSE h \in hits :
                    \A g \in hits : h[1] < g[1] \/ (h[1] = g[1] /\ h[2] <= g[2])
         IN  GraphPipelines(resp)[h[1]].jobs[h[2]].id

\* C5: the job a run resolves is the first one, in the order the host
\* returned pipelines and jobs, whose name equals the job name; nothing else
\* takes part in the choice.
C5_FirstNameMatch ==
    (variant \in ResolvingVariants /\ jobID # Undeclared)
        => jobID = FirstNamedJobID(response, Getenv("gitlab_job_name"))

\* a list of pipelines with every job's canPlayJob set to b
SetPlayableIn(pls, b) ==
    [p \in 1..Len(pls) |->
        [pls[p] EXCEPT !.jobs =
            [j \in 1..Len(pls[p].jobs) |-> [pls[p].jobs[j] EXCEPT !.canPlayJob = b]]]]

\* a response with every job's canPlayJob set to b, nothing else changed
SetPlayable(resp, b) ==
    [mergeRequests |-> [m \in 1..Len(resp.mergeRequests) |->
                            [pipelines |-> SetPlayableIn(resp.mergeRequests[m].pipelines, b)]],
     pipelines     |-> SetPlayableIn(resp.pipelines, b)]

\* what a variant's resolution gives for a response: <<job ID, pipeline ID>>
Resolve(v, resp, jobName) ==
    CASE v = "br" -> findJobAndPipeline_br(resp, jobName)
      [] v = "bg" -> findJobAndPipeline_bg(resp, jobName)
      [] v = "sha" -> findJobAndPipeline_sha(resp, jobName)
      [] v = "mr" -> <<findJobID(resp, jobName), findPipelineID_mr(resp)>>

\* C6: what a run resolves does not depend on the canPlayJob flags: the same
\* job ID and pipeline ID come out of the response with its flags changed
\* (two responses that differ only in flags have one all-playable form).
C6_ResolutionIgnoresPlayable ==
    (variant \in ResolvingVariants /\ jobID # Undeclared)
        => <<jobID, pipelineID>> =
                Resolve(variant, SetPlayable(response, TRUE), Getenv("gitlab_job_name"))

\* C7: a run whose resolution found no job (empty job ID) is over with a
\* non-zero exit status and has sent neither a status nor a trigger request.
C7_NotFoundIsFatalWithoutEffects ==
    jobID = EmptyID
        => pc = "exited" /\ exitCode # 0 /\ StatusRequests = {} /\ TriggerRequests = {}

\* no merge request, no pipeline, or pipelines without jobs
NoJobs(resp) ==
    \A p \in 1..Len(GraphPipelines(resp)) : Len(GraphPipelines(resp)[p].jobs) = 0

\* C8: over a response without jobs the resolution gives the empty job ID
\* and the empty pipeline ID.
C8_EmptyGraphNotFound ==
    (variant \in ResolvingVariants /\ NoJobs(response))
        => /\ pipelineID # Undeclared => pipelineID = EmptyID
           /\ jobID # Undeclared => jobID = EmptyID

\* C9: a run sends at most one trigger request, whatever the outcome of the
\* first one.
C9_AtMostOneTrigger == Cardinality(TriggerRequests) <= 1

\* a jobPlay mutation that met a transport error: the run is over, one request
C9_Witness ==
    /\ variant = "bg" /\ pc = "exited" /\ exitCode = 1
    /\ \E i \in TriggerRequests : requests[i].transport

\* C10: when one of BITRISE_API_TOKEN, BITRISE_APP_SLUG, BITRISE_BUILD_SLUG
\* is empty, no job-play request is sent.
C10_JobPlayNeedsTriggerVariables ==
    (\E n \in TriggerVariableNames : Getenv(n) = "") => RequestsOf({"jobPlay"}) = {}

\* C11: in the entry points that trigger a new pipeline, when one of
\* BITRISE_API_TOKEN, BITRISE_APP_SLUG, BITRISE_BUILD_SLUG is empty no POST
\* to trigger/pipeline is sent and the run does not end with exit status 0.
C11_PipelineTriggerNeedsTriggerVariables ==
    (variant \in {"repo", "proj"} /\ \E n \in TriggerVariableNames : Getenv(n) = "")
        => /\ RequestsOf({"triggerPipeline"}) = {}
           /\ pc = "exited" => exitCode # 0

\* C12: a status publisher called with a status that is not one of pending,
\* running, success, failed, canceled, skipped sends no request: no status
\* request of the run carries such a state.
C12_InvalidStatusRejected ==
    \A i \in StatusRequests : IsValid(requests[i].state)

\* the IDs under which the host knows the pipelines whose jobs include the job
\* jid: the last component of the global ID, and the short IID
OwningPipelineIDs(resp, jid) ==
    LET pls == GraphPipelines(resp) IN
    UNION {{<<pls[p].id[Len(pls[p].id)]>>, pls[p].iid} :
            p \in {q \in 1..Len(pls) :
                    \E j \in 1..Len(pls[q].jobs) : pls[q].jobs[j].id = jid}}

\* C13: the pipeline ID a run hands to the status publisher is the numeric ID
\* of the pipeline that contains the job the run resolves (the short IID of
\* that pipeline is let pass as well).
C13_PublishedPipelineOwnsJob ==
    (variant \in ResolvingVariants /\ jobID # Undeclared /\ jobID # EmptyID)
        => \A i \in StatusRequests :
            requests[i].pipelineID \in OwningPipelineIDs(response, jobID)

\* the job a job-play request acts on is the job jid: the REST endpoint takes
\* the last component of the ID in its path, the mutation takes the whole ID
ActsOnJob(i, jid) ==
    /\ requests[i].kind = "jobPlay"
    /\ requests[i].jobID = IF requests[i].api = "rest" THEN <<jid[Len(jid)]>> ELSE jid

\* the run had outcome "0", its status publish succeeded and a job was resolved
SuccessScenario ==
    /\ variant \in ResolvingVariants
    /\ Getenv("bitrise_build_status") = "0"
    /\ \E i \in StatusRequests : PublishSucceededAt(i)
    /\ jobID # Undeclared /\ jobID # EmptyID

\* C14: a run with outcome "0", a successful status publish and a resolved job
\* calls the job trigger exactly once, on the resolved job: when the run is
\* over it has sent one trigger request, a job play of that job, unless the
\* call stopped at its check of the BITRISE_* variables (no request, exit 1);
\* before that the run stands at the call.
C14_SuccessTriggersResolvedJobOnce ==
    SuccessScenario
        => IF pc = "exited"
           THEN \/ /\ Cardinality(TriggerRequests) = 1
                   /\ \A i \in TriggerRequests : ActsOnJob(i, jobID)
                \/ /\ variant \in {"br", "sha"}
                   /\ \E n \in TriggerVariableNames : Getenv(n) = ""
                   /\ TriggerRequests = {} /\ exitCode = 1
           ELSE pc = "trigger" /\ TriggerRequests = {}

\* a successful build: status published, the resolved job played over REST
C14_Witness ==
    /\ SuccessScenario /\ variant = "br" /\ pc = "exited" /\ exitCode = 0
    /\ \E i \in TriggerRequests : ActsOnJob(i, jobID) /\ TriggerSucceededAt(i)

\* C15: in a run with outcome "1" every status request carries the state
\* failed, no trigger request is sent, and a run that ends with exit status 0
\* has published the state failed with success.
C15_FailureIsPublishedNotTriggered ==
    (variant \in ResolvingVariants /\ Getenv("bitrise_build_status") = "1")
        => /\ TriggerRequests = {}
           /\ \A i \in StatusRequests : requests[i].state = Failed
           /\ (pc = "exited" /\ exitCode = 0)
                => \E i \in StatusRequests :
                        PublishSucceededAt(i) /\ requests[i].state = Failed

\* the request met a failure: a transport error, an answer outside 2xx, a
\* body that does not decode, or a job-play answer that lists errors
RequestFailedAt(i) ==
    \/ requests[i].transport
    \/ requests[i].code < 200 \/ requests[i].code >= 300
    \/ requests[i].body \in {"malformed", "errors"}

\* C16: every error is terminal: a request that failed is the last request of
\* its run, and the run has ended with a non-zero exit status.
C16_ErrorsAreTerminal ==
    \A i \in 1..Len(requests) :
        RequestFailedAt(i) => i = Len(requests) /\ pc = "exited" /\ exitCode # 0

\* a job-play mutation answered 200 with an errors list, after a query and a
\* status publish that succeeded: the run has ended with exit status 1
C16_Witness ==
    /\ variant = "mr" /\ pc = "exited" /\ exitCode = 1 /\ Len(requests) = 3
    /\ requests[3].kind = "jobPlay" /\ requests[3].body = "errors"
    /\ RequestFailedAt(3)

\* the inputs the claim calls required, by the names the entry point reads
\* them under: project path, locating field, job name, access token, commit
\* SHA, and the three trigger variables
RequiredInputs(v) ==
    {"gitlab_project_path", "gitlab_job_name", "gitlab_token", "bitrise_git_commit"}
    \cup (IF v = "mr" THEN {"gitlab_merge_request_iid"}
          ELSE IF v \in {"br", "bg"} THEN {"gitlab_branch_name"} ELSE {})

MissingInput(names) == \E n \in names : Getenv(n) = ""

\* C17: a run in which a required input is missing (project path, job name,
\* access token, locating field, commit SHA, or one of the three trigger
\* variables) sends no status request and no trigger request, and does not
\* end with exit status 0.
C17_MissingInputStopsRun ==
    (variant \in ResolvingVariants
        /\ MissingInput(RequiredInputs(variant) \cup TriggerVariableNames))
        => /\ StatusRequests = {} /\ TriggerRequests = {}
           /\ pc = "exited" => exitCode # 0

\* C18: in the commit-SHA entry point no run crashes between the validation
\* of its inputs and the query: a run that passed fetchEnvVars with
\* bitrise_git_commit unset does not die of a runtime panic (exit status 2).
C18_UnsetCommitDoesNotCrash ==
    (variant = "sha" /\ Getenv("bitrise_git_commit") = "")
        => ~(pc = "exited" /\ exitCode = 2)

\* C19 as stated: every REST request carries a private-token header and every
\* GraphQL request a bearer token.
C19_RestPrivateTokenGraphQLBearer ==
    \A i \in 1..Len(requests) :
        /\ requests[i].token # ""
        /\ requests[i].auth = IF requests[i].api = "rest" THEN "PRIVATE-TOKEN" ELSE "Bearer"

\* where the credential of a request travels: the header it is sent in, or
\* the form field token alone
CredentialPlace(i) ==
    IF requests[i].auth = "none"
    THEN IF requests[i].formToken # "" THEN "form" ELSE "none"
    ELSE IF requests[i].token # "" THEN requests[i].auth ELSE "none"

\* C19, amended: every request carries a credential that is not empty: a
\* bearer token on every GraphQL request and every commit-status request, a
\* private-token header on every REST job play and on the pipeline trigger of
\* the repository-URL entry point, and the form field token, with no
\* authentication header, on the pipeline trigger of the project-ID entry point.
C19_EveryRequestCarriesCredential ==
    \A i \in 1..Len(requests) :
        CredentialPlace(i) =
            CASE requests[i].api = "graphql" -> "Bearer"
              [] requests[i].kind = "status" -> "Bearer"
              [] requests[i].kind = "jobPlay" -> "PRIVATE-TOKEN"
              [] requests[i].kind = "triggerPipeline" /\ variant = "repo" -> "PRIVATE-TOKEN"
              [] OTHER -> "form"

\* a run of each kind of REST request: a commit status under a bearer token
\* followed by a job play under a private-token header
C19_Witness ==
    /\ variant = "br" /\ Len(requests) = 3
    /\ requests[2].kind = "status" /\ CredentialPlace(2) = "Bearer"
    /\ requests[3].kind = "jobPlay" /\ CredentialPlace(3) = "PRIVATE-TOKEN"

\* what a run has asked the host to change, in order: the commit statuses to
\* record and the jobs and pipelines to start (a query changes nothing)
HostEffects ==
    SelectSeq(requests, LAMBDA r : r.kind \in {"status", "jobPlay", "triggerPipeline"})

\* the positions of main at which a status publisher or a trigger is called
PublisherAndTriggerSteps ==
    {"publishBuildStatus", "publishBitriseStatus", "trigger", "triggerPipeline"}

\* C20: the resolver and the translator have no side effects: a step that
\* changes what the host has been asked to record or start is a step of a
\* status publisher or of a trigger; the reading of the inputs, the
\* translation, the query and the search of its answer leave it unchanged.
C20_OnlyPublisherAndTriggerChangeHost ==
    [][HostEffects' # HostEffects => pc \in PublisherAndTriggerSteps]_vars

\* a run past its translator and its resolver, job found, nothing asked of
\* the host but the query
C20_Witness ==
    /\ variant = "sha" /\ pc = "trigger" /\ status = Failed
    /\ jobID # Undeclared /\ jobID # EmptyID
    /\ Len(requests) = 1 /\ requests[1].kind = "query" /\ HostEffects = <<>>

\* the entry points whose main calls its status publisher
PublishingVariants == {"mr", "br", "bg"}

\* the run read an outcome code other than "0", has all its inputs and has
\* resolved the pipeline to report to
OtherOutcomeScenario ==
    /\ variant \in PublishingVariants
    /\ Getenv("bitrise_build_status") \notin {"0", Unread}
    /\ ~MissingInput(RequiredInputs(variant))
    /\ pipelineID # Undeclared /\ pipelineID # EmptyID

C22_RefFallsBackToBranch ==
    /\ \A i \in RequestsOf({"triggerPipeline"}) :
        /\ requests[i].ref # ""
        /\ requests[i].ref = IF Getenv("git_ref") # ""
                             THEN Getenv("git_ref")
                             ELSE Getenv("BITRISE_GIT_BRANCH")
    /\ (pc = "exited" /\ Getenv("git_ref") = "" /\ Getenv("BITRISE_GIT_BRANCH") = "")
            => requests = <<>> /\ exitCode = 1

\* cfg.GitRef empty and BITRISE_GIT_BRANCH set: the request went out with
\* the branch as its ref
C22_Witness ==
    /\ Getenv("git_ref") = "" /\ Getenv("BITRISE_GIT_BRANCH") = "v:BITRISE_GIT_BRANCH"
    /\ pc = "exited" /\ exitCode = 0
    /\ \E i \in RequestsOf({"triggerPipeline"}) : requests[i].ref = "v:BITRISE_GIT_BRANCH"

\* C23: every run of a resolving entry point terminates, given that each of
\* its steps and network calls returns: it reaches its exit, and at no point
\* has it sent more than one pipeline query, one status request or one
\* trigger request.
C23_RunsTerminate ==
    /\ [](variant \in ResolvingVariants
            => /\ Cardinality(RequestsOf({"query"})) <= 1
               /\ Cardinality(StatusRequests) <= 1
               /\ Cardinality(TriggerRequests) <= 1)
    /\ (variant \in ResolvingVariants => <>(pc = "exited"))

\* the longest run there is: query, status and job play sent, then the exit
C23_Witness ==
    /\ variant = "br" /\ pc = "exited" /\ exitCode = 0
    /\ Cardinality(RequestsOf({"query"})) = 1
    /\ Cardinality(StatusRequests) = 1
    /\ Cardinality(TriggerRequests) = 1

====
